---- MODULE Spec2Model ----
(***************************************************************************)
(* State-machine model of sdv.tabular.copulas.GaussianCopula: one instance *)
(* that is constructed, fitted, sampled, exported with get_parameters and  *)
(* rebuilt with set_parameters.                                            *)
(*                                                                         *)
(* Numbers.  Covariance entries are integers in units of 1/CovOne, so the  *)
(* correlation 1.0 is CovOne.  A scale is either zero or e^k for an        *)
(* integer k; np.log and np.exp act on that representation.  A row count   *)
(* handed to set_parameters is a multiple of one half.                     *)
(***************************************************************************)
EXTENDS Integers, Sequences, FiniteSets, TLC

VARIABLES pc, args, _field_distributions, _default_distribution, _model,
          _num_rows, model_kwargs, held, last

vars == <<pc, args, _field_distributions, _default_distribution, _model,
          _num_rows, model_kwargs, held, last>>

\* ------------------------------------------------------------------ bounds
MaxRows == 1

\* --------------------------------------------------------------- universe
Columns == {"a", "b"}

\* pandas keeps the columns of a table in order
ColumnOrder == <<"a", "b">>

Families == {"gaussian", "gamma", "beta", "student_t", "gaussian_kde",
             "truncated_gaussian"}

\* A distribution spec is a record [kind, name]:
\*   kind "str"      a string (alias, identifier or anything else)
\*   kind "class"    a univariate class (a family, or Univariate itself)
\*   kind "selector" a Univariate instance built with constraints
\*   kind "instance" an already instantiated family object
\*   kind "none"     None
Str(s) == [kind |-> "str", name |-> s]
Class(f) == [kind |-> "class", name |-> f]
Selector(a) == [kind |-> "selector", name |-> a]
Instance(f) == [kind |-> "instance", name |-> f]
None == [kind |-> "none", name |-> ""]

Aliases == {"univariate", "parametric", "bounded", "semi_bounded",
            "parametric_bounded", "parametric_semi_bounded", "gaussian",
            "gamma", "beta", "student_t", "gaussian_kde",
            "truncated_gaussian"}

\* GaussianCopula._DISTRIBUTIONS
_DISTRIBUTIONS == [al \in Aliases |->
    CASE al = "univariate" -> Class("Univariate")
      [] al \in Families -> Class(al)
      [] OTHER -> Selector(al)]

_DEFAULT_DISTRIBUTION == _DISTRIBUTIONS["parametric"]

_DEFAULT_TRANSFORMER == "one_hot_encoding"

\* copulas.get_qualified_name of a family
QualifiedName(f) ==
    CASE f = "gaussian" -> "copulas.univariate.gaussian.GaussianUnivariate"
      [] f = "gamma" -> "copulas.univariate.gamma.GammaUnivariate"
      [] f = "beta" -> "copulas.univariate.beta.BetaUnivariate"
      [] f = "student_t" -> "copulas.univariate.student_t.StudentTUnivariate"
      [] f = "gaussian_kde" -> "copulas.univariate.gaussian_kde.GaussianKDE"
      [] f = "truncated_gaussian" ->
            "copulas.univariate.truncated_gaussian.TruncatedGaussian"

QualifiedNames == {QualifiedName(f) : f \in Families}

FamilyOfName(n) == CHOOSE f \in Families : QualifiedName(f) = n

\* Strings with a dot whose module cannot be imported
UnimportableNames == {"no_such_package.Nothing"}

\* copulas.get_instance on a string, as _validate_distribution uses it:
\* the outcome is "ok" or the exception class the lookup raises.
get_instance_str(s) ==
    IF s \in QualifiedNames THEN "ok"
    ELSE IF s \in UnimportableNames THEN "ImportError"
    ELSE "ValueError"

\* Result of a call that may raise
Ok(v) == [ok |-> TRUE, value |-> v, error |-> "", message |-> ""]
Raise(e, m) == [ok |-> FALSE, value |-> None, error |-> e, message |-> m]

\* _validate_distribution that leaves the lookup of an unknown string to fit
ValidateWithoutLookup(distribution) ==
    IF distribution.kind # "str" THEN Ok(distribution)
    ELSE IF distribution.name \in DOMAIN _DISTRIBUTIONS
         THEN Ok(_DISTRIBUTIONS[distribution.name])
    ELSE Ok(distribution)

\* GaussianCopula._validate_distribution
_validate_distribution(distribution) ==
    IF distribution.kind # "str" THEN Ok(distribution)
    ELSE IF distribution.name \in DOMAIN _DISTRIBUTIONS
         THEN Ok(_DISTRIBUTIONS[distribution.name])
    ELSE IF get_instance_str(distribution.name) = "ok" THEN Ok(distribution)
    ELSE Raise("ValueError", distribution.name)

\* Python truth value of a spec: None and the empty string are false
Truthy(d) == ~(d.kind = "none" \/ (d.kind = "str" /\ d.name = ""))

Range(seq) == {seq[i] : i \in 1..Len(seq)}

\* ------------------------------------------------------ constructor inputs
EmptyDict == [c \in {} |-> None]

\* The field_distributions argument: None, a dict, or something that is
\* not a dict (a list, empty or not)
FdNone == [kind |-> "none", truthy |-> FALSE, items |-> EmptyDict]
FdDict(f) == [kind |-> "dict", truthy |-> DOMAIN f # {}, items |-> f]
FdList(nonempty) == [kind |-> "list", truthy |-> nonempty, items |-> EmptyDict]

FieldSpecInputs == {Str("gaussian"), Str("gaussian_kde"),
                    Str(QualifiedName("gamma")),
                    Str("not_a_real_distribution")}

DefaultSpecInputs == {None, Str("univariate"), Instance("beta"),
                      Str("no_such_package.Nothing")}

FdDomains == {{"a"}}

FdInputs == {FdNone, FdList(TRUE)} \cup
            {FdDict(f) : f \in UNION {[S -> FieldSpecInputs] : S \in FdDomains}}

\* First column, in order, of a set of columns
RECURSIVE FirstIn(_, _)
FirstIn(seq, S) == IF Head(seq) \in S THEN Head(seq) ELSE FirstIn(Tail(seq), S)

\* GaussianCopula.__init__ with table_metadata=None: the outcome of the
\* resolution of the field_distributions entries and of the default.
InitOutcome(fd, default) ==
    LET items == IF fd.truthy THEN fd.items ELSE EmptyDict
        bad == {c \in DOMAIN items : ~_validate_distribution(items[c]).ok}
        dflt == _validate_distribution(default)
    IN  IF fd.truthy /\ fd.kind # "dict"
        THEN Raise("TypeError", "field_distributions")
        ELSE IF bad # {}
        THEN _validate_distribution(items[FirstIn(ColumnOrder, bad)])
        ELSE IF ~dflt.ok THEN dflt
        ELSE Ok(None)

\* ------------------------------------------------------------ univariates
\* ParametricType of a family
NonParametric(f) == f = "gaussian_kde"

\* Families a Univariate selector may settle on at fit time
Candidates(d) ==
    LET parametric == Families \ {"gaussian_kde"}
        bounded == {"beta", "truncated_gaussian"}
        semi == {"gamma"}
    IN  CASE d = Class("Univariate") -> Families
          [] d = Selector("parametric") -> parametric
          [] d = Selector("bounded") -> bounded \cup {"gaussian_kde"}
          [] d = Selector("semi_bounded") -> semi \cup {"gaussian_kde"}
          [] d = Selector("parametric_bounded") -> bounded
          [] d = Selector("parametric_semi_bounded") -> semi
          [] d.kind = "str" -> {FamilyOfName(d.name)}
          [] OTHER -> {d.name}

IsSelector(d) == d = Class("Univariate") \/ d.kind = "selector"

\* A scale: zero, or e^k
Zero == [kind |-> "zero", e |-> 0]
Pos(k) == [kind |-> "pos", e |-> k]

\* copulas.EPSILON (about 1.2e-7) as a power of e
EpsilonLog == -16
EPSILON == Pos(EpsilonLog)

np_log(scale) == scale.e
np_exp(x) == Pos(x)

\* Parameters of a fitted univariate of family f
FittedParams(f, scale) ==
    IF NonParametric(f) THEN [p \in {"dataset"} |-> 0]
    ELSE [p \in {"loc", "scale"} |-> IF p = "loc" THEN 0 ELSE scale]

\* A fitted univariate: cls is "Univariate" for a selector (family is then
\* the wrapped _instance), else the family itself
Univariate(d, f, scale) ==
    [cls |-> IF IsSelector(d) THEN "Univariate" ELSE f,
     family |-> f, params |-> FittedParams(f, scale)]

\* Univariate.to_dict
univariate_to_dict(u) ==
    [p \in DOMAIN u.params \cup {"type"} |->
        IF p = "type" THEN QualifiedName(u.family) ELSE u.params[p]]

\* ------------------------------------------------------------- covariance
CovOne == 2

\* Matrix m without row 1 and column j
Minor(m, j) ==
    [i \in 1..(Len(m) - 1) |-> [k \in 1..(Len(m) - 1) |->
        m[i + 1][IF k < j THEN k ELSE k + 1]]]

RECURSIVE Det(_)
RECURSIVE DetSum(_, _)
DetSum(m, j) ==
    IF j > Len(m) THEN 0
    ELSE (IF j % 2 = 1 THEN 1 ELSE -1) * m[1][j] * Det(Minor(m, j))
         + DetSum(m, j + 1)

Det(m) == IF Len(m) = 0 THEN 1 ELSE DetSum(m, 1)

IsSymmetric(m) == \A i, j \in 1..Len(m) : m[i][j] = m[j][i]

Leading(m, k) == [i \in 1..k |-> [j \in 1..k |-> m[i][j]]]

\* check_matrix_symmetric_positive_definite: symmetric, all eigenvalues > 0
check_matrix_symmetric_positive_definite(m) ==
    /\ IsSymmetric(m)
    /\ \A k \in 1..Len(m) : Det(Leading(m, k)) > 0

AddIdentity(m, k) ==
    [i \in 1..Len(m) |-> [j \in 1..Len(m) |->
        IF i = j THEN m[i][j] + k ELSE m[i][j]]]

Symmetrize(m) ==
    [i \in 1..Len(m) |-> [j \in 1..Len(m) |->
        IF i <= j THEN m[i][j] ELSE m[j][i]]]

\* make_positive_definite: add increasing multiples of the identity until
\* the check passes
RECURSIVE Repair(_, _)
Repair(m, k) ==
    IF check_matrix_symmetric_positive_definite(AddIdentity(m, k))
    THEN AddIdentity(m, k)
    ELSE Repair(m, k + 1)

make_positive_definite(m) == Repair(Symmetrize(m), 1)

\* Correlations the covariance estimator can produce off the diagonal
FitCorrs == {1, CovOne}

FitCovariances(n) ==
    {[i \in 1..n |-> [j \in 1..n |-> IF i = j THEN CovOne ELSE r]] :
        r \in FitCorrs}

\* ------------------------------------------------------------------ model
NoModel == [present |-> FALSE]

\* copulas.multivariate.GaussianMultivariate(distribution=...), not fitted
Unfitted(distribution) ==
    [present |-> TRUE, fitted |-> FALSE, distribution |-> distribution,
     columns |-> <<>>, univariates |-> <<>>, covariance |-> <<>>]

Fitted(distribution, columns, univariates, covariance) ==
    [present |-> TRUE, fitted |-> TRUE, distribution |-> distribution,
     columns |-> columns, univariates |-> univariates,
     covariance |-> covariance]

FitScales == {Zero, Pos(0)}

\* Families the data of the tables is shaped like: a selector settles on
\* one of these
DataFamilies == {"gaussian", "gaussian_kde"}

\* Families the univariate fitter may return for a spec
FitFamilies(d) ==
    IF IsSelector(d) THEN Candidates(d) \cap DataFamilies ELSE Candidates(d)

\* Fitted univariates the fitter may return for the columns, in order
RECURSIVE FitUnivariates(_, _)
FitUnivariates(fd, columns) ==
    IF columns = <<>> THEN {<<>>}
    ELSE {<<Univariate(fd[Head(columns)], f, scale)>> \o rest :
            f \in FitFamilies(fd[Head(columns)]), scale \in FitScales,
            rest \in FitUnivariates(fd, Tail(columns))}

\* Tables handed to fit: ordered columns, a row count, and whether the
\* marginal fitting of its data goes through
Tables == [columns : {<<"a">>, <<"b">>, <<"a", "b">>},
           rows : 1..MaxRows, fittable : BOOLEAN]

\* GaussianCopula.get_distributions
get_distributions(model) ==
    [c \in Range(model.columns) |->
        LET i == CHOOSE i \in 1..Len(model.columns) : model.columns[i] = c
        IN  univariate_to_dict(model.univariates[i])["type"]]

\* The loop of _fit without its test: every column gets the default
WithDefaultsOverwriting(fd, columns, default) ==
    [c \in DOMAIN fd \cup Range(columns) |->
        IF c \in Range(columns) THEN default ELSE fd[c]]

\* The loop of _fit over the columns of the table
WithDefaults(fd, columns, default) ==
    [c \in DOMAIN fd \cup Range(columns) |->
        IF c \in Range(columns) /\ (c \notin DOMAIN fd \/ ~Truthy(fd[c]))
        THEN default ELSE fd[c]]

NoneRows == -1

NoMapping == [present |-> FALSE]

NoArg == [kind |-> "none"]

Call(op, result, arg) == [op |-> op, result |-> result, arg |-> arg]

__init__ ==
    /\ pc = "new"
    /\ \E fd \in FdInputs, default \in DefaultSpecInputs :
         LET out == InitOutcome(fd, default)
             items == IF fd.truthy THEN fd.items ELSE EmptyDict
         IN  /\ args' = [field_distributions |-> fd,
                         default_distribution |-> default]
             /\ IF out.ok
                THEN /\ pc' = "constructed"
                     /\ _field_distributions' =
                          [c \in DOMAIN items |->
                              _validate_distribution(items[c]).value]
                     /\ _default_distribution' =
                          (IF Truthy(_validate_distribution(default).value)
                           THEN _validate_distribution(default).value
                           ELSE _DEFAULT_DISTRIBUTION)
                     /\ model_kwargs' =
                          [field_distributions |-> fd,
                           default_distribution |-> default,
                           categorical_transformer |-> None]
                     /\ last' = Call("__init__", "ok", NoArg)
                ELSE /\ pc' = "failed"
                     /\ last' = Call("__init__", out.error,
                                     [kind |-> "message", text |-> out.message])
                     /\ UNCHANGED <<_field_distributions,
                                    _default_distribution, model_kwargs>>
    /\ UNCHANGED <<_model, _num_rows, held>>

Init ==
    /\ pc = "new"
    /\ args = [field_distributions |-> FdNone, default_distribution |-> None]
    /\ _field_distributions = EmptyDict
    /\ _default_distribution = None
    /\ _model = NoModel
    /\ _num_rows = NoneRows
    /\ model_kwargs = [field_distributions |-> FdNone,
                       default_distribution |-> None,
                       categorical_transformer |-> None]
    /\ held = NoMapping
    /\ last = Call("none", "ok", NoArg)

\* ------------------------------------------------------- parameter codec
\* A row count inside a flat mapping: h halves, NaN, or null
Num(h) == [kind |-> "num", halves |-> h]
NaN == [kind |-> "nan", halves |-> 0]
Null == [kind |-> "null", halves |-> 0]

NumRowsValue(n) == IF n = NoneRows THEN Null ELSE Num(2 * n)

\* Column names and indices the keys of a flat mapping are read over
KeyColumns == <<"a", "b", "z">>
MaxIndex == Len(KeyColumns) - 1
Indices == 0..MaxIndex
ParamNames == {"loc", "scale", "type", "dataset"}

\* The keys of a flat mapping: the access path joined with "__"
CovKeyTable ==
    [i \in Indices |-> [j \in Indices |->
        "covariance__" \o ToString(i) \o "__" \o ToString(j)]]
UniKeyTable ==
    [c \in Range(KeyColumns) |-> [p \in ParamNames |->
        "univariates__" \o c \o "__" \o p]]

CovKey(i, j) == CovKeyTable[i][j]
UniKey(c, p) == UniKeyTable[c][p]

\* flatten_dict on {covariance, univariates, num_rows}
flatten_dict(nested) ==
    LET cov == IF "covariance" \in DOMAIN nested
               THEN nested["covariance"] ELSE <<>>
        uni == IF "univariates" \in DOMAIN nested
               THEN nested["univariates"] ELSE EmptyDict
        covKeys == {CovKey(i - 1, j - 1) : i \in 1..Len(cov), j \in 1..MaxIndex + 1}
                   \cap UNION {{CovKey(i - 1, j - 1) : j \in 1..Len(cov[i])} :
                                 i \in 1..Len(cov)}
        uniKeys == UNION {{UniKey(c, p) : p \in DOMAIN uni[c]} : c \in DOMAIN uni}
        keys == covKeys \cup uniKeys \cup
                (IF "num_rows" \in DOMAIN nested THEN {"num_rows"} ELSE {})
    IN  [k \in keys |->
            IF k = "num_rows" THEN nested["num_rows"]
            ELSE IF k \in covKeys
            THEN LET ij == CHOOSE ij \in Indices \X Indices :
                              k = CovKey(ij[1], ij[2])
                 IN  cov[ij[1] + 1][ij[2] + 1]
            ELSE LET cp == CHOOSE cp \in (DOMAIN uni) \X ParamNames :
                              k = UniKey(cp[1], cp[2])
                 IN  uni[cp[1]][cp[2]]]

\* Sub-sequence of the key columns that satisfy a test, in key order
RECURSIVE Keep(_, _)
Keep(seq, S) ==
    IF seq = <<>> THEN <<>>
    ELSE IF Head(seq) \in S THEN <<Head(seq)>> \o Keep(Tail(seq), S)
    ELSE Keep(Tail(seq), S)

\* unflatten_dict: the nested structure, or ValueError when the numeric
\* indices of a sequence are not contiguous from 0
unflatten_dict(flat) ==
    LET keys == DOMAIN flat
        rows == {i \in Indices : \E j \in Indices : CovKey(i, j) \in keys}
        width(i) == Cardinality({j \in Indices : CovKey(i, j) \in keys})
        contiguous ==
            /\ rows = 0..(Cardinality(rows) - 1)
            /\ \A i \in rows : \A j \in Indices :
                  CovKey(i, j) \in keys <=> j < width(i)
        cov == [i \in 1..Cardinality(rows) |->
                   [j \in 1..width(i - 1) |-> flat[CovKey(i - 1, j - 1)]]]
        cols == {c \in Range(KeyColumns) :
                    \E p \in ParamNames : UniKey(c, p) \in keys}
        uni == [c \in cols |->
                   [p \in {p \in ParamNames : UniKey(c, p) \in keys} |->
                       flat[UniKey(c, p)]]]
        top == (IF rows # {} THEN {"covariance"} ELSE {}) \cup
               (IF cols # {} THEN {"univariates"} ELSE {}) \cup
               (IF "num_rows" \in keys THEN {"num_rows"} ELSE {})
    IN  IF ~contiguous THEN Raise("ValueError", "unflatten")
        ELSE Ok([k \in top |->
                    CASE k = "covariance" -> cov
                      [] k = "univariates" -> uni
                      [] k = "num_rows" -> flat["num_rows"]])

\* GaussianMultivariate.to_dict
to_dict(model) ==
    [covariance |-> model.covariance,
     univariates |-> [i \in 1..Len(model.univariates) |->
                         univariate_to_dict(model.univariates[i])],
     columns |-> model.columns]

\* get_parameters without the step into the selector's _instance
ResolvedWithoutInstance(u) == u.cls

\* The family a fitted univariate resolved to, as get_parameters reads it
Resolved(u) == IF u.cls = "Univariate" THEN u.family ELSE u.cls

\* The scale of a univariate as get_parameters exports it
ExportScale(scale) == np_log(IF scale = Zero THEN EPSILON ELSE scale)

\* GaussianCopula.get_parameters
GetParameters(model, num_rows) ==
    IF ~model.present THEN Raise("AttributeError", "univariates")
    ELSE IF ~model.fitted THEN Raise("TypeError", "univariates")
    ELSE IF \E i \in 1..Len(model.univariates) :
               NonParametric(Resolved(model.univariates[i]))
    THEN Raise("NonParametricError",
               "This GaussianCopula uses non parametric distributions")
    ELSE LET params == to_dict(model)
             n == Len(params.covariance)
             covariance == [i \in 1..n |-> SubSeq(params.covariance[i], 1, i)]
             index(c) == CHOOSE i \in 1..Len(params.columns) :
                             params.columns[i] = c
             univariates ==
                [c \in Range(params.columns) |->
                    LET u == params.univariates[index(c)]
                    IN  [p \in DOMAIN u |->
                            IF p = "scale" THEN ExportScale(u[p]) ELSE u[p]]]
         IN  Ok(flatten_dict([covariance |-> covariance,
                              univariates |-> univariates,
                              num_rows |-> NumRowsValue(num_rows)]))

get_parameters ==
    /\ pc = "constructed"
    /\ LET r == GetParameters(_model, _num_rows)
       IN  /\ last' = Call("get_parameters",
                           IF r.ok THEN "ok" ELSE r.error, NoArg)
           /\ held' = IF r.ok THEN [present |-> TRUE, flat |-> r.value]
                      ELSE held
    /\ UNCHANGED <<pc, args, _field_distributions, _default_distribution,
                   _model, _num_rows, model_kwargs>>

\* square_matrix: pad every row with zeros to the number of rows; a row
\* longer than that leaves a ragged array numpy cannot work with
square_matrix(triangular) ==
    LET n == Len(triangular)
    IN  IF \E i \in 1..n : Len(triangular[i]) > n
        THEN Raise("ValueError", "square_matrix")
        ELSE Ok([i \in 1..n |-> [j \in 1..n |->
                    IF j <= Len(triangular[i]) THEN triangular[i][j] ELSE 0]])

\* covariance + covariance.T - identity * covariance
Expand(m) ==
    [i \in 1..Len(m) |-> [j \in 1..Len(m) |->
        m[i][j] + m[j][i] - (IF i = j THEN m[i][j] ELSE 0)]]

\* _rebuild_covariance_matrix without the repair
RebuildWithoutRepair(covariance) ==
    LET square == square_matrix(covariance)
    IN  IF ~square.ok THEN square ELSE Ok(Expand(square.value))

\* GaussianCopula._rebuild_covariance_matrix
_rebuild_covariance_matrix(covariance) ==
    LET square == square_matrix(covariance)
        expanded == Expand(square.value)
    IN  IF ~square.ok THEN square
        ELSE IF ~check_matrix_symmetric_positive_definite(expanded)
        THEN Ok(make_positive_definite(expanded))
        ELSE Ok(expanded)

\* The univariate of a column as _rebuild_gaussian_copula rewrites it
RebuildUnivariate(univariate, distribution) ==
    [p \in DOMAIN univariate \cup {"type"} |->
        IF p = "type" THEN distribution
        ELSE IF p = "scale" THEN np_exp(univariate[p])
        ELSE univariate[p]]

\* GaussianCopula._rebuild_gaussian_copula
_rebuild_gaussian_copula(model_parameters, fd) ==
    IF "univariates" \notin DOMAIN model_parameters
    THEN Raise("KeyError", "univariates")
    ELSE LET byName == model_parameters["univariates"]
             columns == Keep(KeyColumns, DOMAIN byName)
             covariance ==
                IF "covariance" \in DOMAIN model_parameters
                THEN _rebuild_covariance_matrix(model_parameters["covariance"])
                ELSE Raise("TypeError", "covariance")
         IN  IF \E c \in DOMAIN byName : c \notin DOMAIN fd
             THEN Raise("KeyError", FirstIn(columns, DOMAIN byName \ DOMAIN fd))
             ELSE IF ~covariance.ok THEN covariance
             ELSE [ok |-> TRUE, error |-> "", message |-> "",
                   value |->
                     [univariates |->
                         [i \in 1..Len(columns) |->
                             RebuildUnivariate(byName[columns[i]],
                                               fd[columns[i]])],
                      columns |-> columns,
                      covariance |-> covariance.value]]

\* Parameters a family needs to be rebuilt from
RequiredParams(f) == IF NonParametric(f) THEN {"dataset"} ELSE {"loc", "scale"}

\* Univariate.from_dict can rebuild the univariate: the type is a family
\* (the selector class has no parameters of its own) and its parameters
\* are there
CanRebuild(u) ==
    /\ ~IsSelector(u["type"])
    /\ u["type"].kind # "none"
    /\ RequiredParams(CHOOSE f \in Candidates(u["type"]) : TRUE)
          \subseteq DOMAIN u

\* GaussianMultivariate.from_dict
from_dict(parameters) ==
    LET n == Len(parameters.columns)
    IN  IF \E i \in 1..n : ~CanRebuild(parameters.univariates[i])
        THEN Raise("FromDictError", "univariate")
        ELSE IF Len(parameters.covariance) # n
        THEN Raise("ValueError", "shape")
        ELSE [ok |-> TRUE, error |-> "", message |-> "",
              value |->
                Fitted(EmptyDict, parameters.columns,
                       [i \in 1..n |->
                          LET u == parameters.univariates[i]
                              f == CHOOSE f \in Candidates(u["type"]) : TRUE
                          IN  [cls |-> f, family |-> f,
                               params |-> [p \in DOMAIN u \ {"type"} |-> u[p]]]],
                       parameters.covariance)]

\* Python round on a number of halves: ties go to the even integer
RoundHalfEven(h) ==
    IF h % 2 = 0 THEN h \div 2
    ELSE LET floor == (h - 1) \div 2
         IN  IF floor % 2 = 0 THEN floor ELSE floor + 1

Max(x, y) == IF x >= y THEN x ELSE y

\* The row count coerced without max(0, ...)
CoerceWithoutClamp(v) ==
    IF v.kind # "num" THEN 0 ELSE RoundHalfEven(v.halves)

\* 0 if pd.isnull(num_rows) else max(0, int(round(num_rows)))
CoerceNumRows(v) ==
    IF v.kind # "num" THEN 0 ELSE Max(0, RoundHalfEven(v.halves))

\* GaussianCopula.set_parameters: the outcome and the fields it leaves
SetParameters(flat, fd, model, num_rows) ==
    LET unflat == unflatten_dict(flat)
        rebuilt == _rebuild_gaussian_copula(unflat.value, fd)
        new == from_dict(rebuilt.value)
        keep(r) == [result |-> r.error, model |-> model, num_rows |-> num_rows]
    IN  IF ~unflat.ok THEN keep(unflat)
        ELSE IF ~rebuilt.ok THEN keep(rebuilt)
        ELSE IF "num_rows" \notin DOMAIN unflat.value
        THEN keep(Raise("KeyError", "num_rows"))
        ELSE IF ~new.ok
        THEN [result |-> new.error, model |-> model,
              num_rows |-> CoerceNumRows(unflat.value["num_rows"])]
        ELSE [result |-> "ok", model |-> new.value,
              num_rows |-> CoerceNumRows(unflat.value["num_rows"])]

\* ------------------------------------------------- set_parameters inputs
\* The flat mapping of a model over the columns cols, every column a
\* gaussian with loc 0 and log-scale 0, correlation r, row count v
Crafted(cols, diag, r, v) ==
    LET n == Cardinality(cols)
    IN  flatten_dict(
          [covariance |-> [i \in 1..n |-> [j \in 1..i |->
                              IF i = j THEN diag ELSE r]],
           univariates |-> [c \in cols |->
                              [p \in {"loc", "scale", "type"} |->
                                  IF p = "type" THEN QualifiedName("gaussian")
                                  ELSE 0]],
           num_rows |-> v])

Without(flat, keys) == [k \in DOMAIN flat \ keys |-> flat[k]]

With(flat, key, v) ==
    [k \in DOMAIN flat \cup {key} |-> IF k = key THEN v ELSE flat[k]]

\* Row counts 2.5 and 3.5 (both ties), -1.5, NaN and null
Base1 == Crafted({"a"}, CovOne, 0, Num(5))
Base2 == Crafted({"a", "b"}, CovOne, 1, Num(7))

WellFormedInputs ==
    {Base1, Base2, Crafted({"a"}, 0, 0, Num(-3)),
     Crafted({"a", "b"}, CovOne, CovOne + 1, NaN),
     With(Base1, "num_rows", Null)}

MalformedInputs ==
    {Without(Base2, {"num_rows"}),
     Without(Base2, {CovKey(i, j) : i, j \in Indices}),
     Without(Base2, {UniKey(c, p) : c \in Columns, p \in ParamNames}),
     Crafted({"a", "z"}, CovOne, 1, Num(8)),
     Without(Base2, {CovKey(0, 0)}),
     Without(Base2, {CovKey(1, 0), CovKey(1, 1)})}

\* A flat mapping shaped as get_parameters shapes it: n columns of known
\* names with type, loc and scale, n triangular covariance rows, num_rows
WellFormed(flat) ==
    LET keys == DOMAIN flat
        cols == {c \in Range(KeyColumns) :
                    \E p \in ParamNames : UniKey(c, p) \in keys}
        n == Cardinality(cols)
    IN  /\ n >= 1
        /\ cols \subseteq Columns
        /\ "num_rows" \in keys
        /\ \A c \in cols : \A p \in ParamNames :
              UniKey(c, p) \in keys <=> p \in {"loc", "scale", "type"}
        /\ \A i, j \in Indices : CovKey(i, j) \in keys <=> (j <= i /\ i < n)

set_parameters ==
    /\ pc = "constructed"
    /\ \E source \in {"held", "crafted"} :
       \E parameters \in
            (IF source = "crafted"
             THEN WellFormedInputs \cup MalformedInputs
             ELSE IF held.present THEN {held.flat} ELSE {}) :
         LET out == SetParameters(parameters, _field_distributions, _model,
                                  _num_rows)
         IN  /\ _model' = out.model
             /\ _num_rows' = out.num_rows
             /\ last' = Call("set_parameters", out.result,
                             [kind |-> "mapping", source |-> source,
                              parameters |-> parameters])
    /\ held' = NoMapping
    /\ UNCHANGED <<pc, args, _field_distributions, _default_distribution,
                   model_kwargs>>

\* fit: GaussianCopula._fit on the table, the row count kept by the facade
fit ==
    /\ pc = "constructed"
    /\ \E table \in Tables :
         LET fd == WithDefaults(_field_distributions, table.columns,
                                _default_distribution)
             n == Len(table.columns)
         IN  /\ _field_distributions' = fd
             /\ IF ~table.fittable
                THEN /\ _model' = Unfitted(fd)
                     /\ last' = Call("fit", "FitError",
                                     [kind |-> "table",
                                      columns |-> table.columns])
                     /\ UNCHANGED <<_num_rows, model_kwargs>>
                ELSE \E univariates \in FitUnivariates(fd, table.columns),
                        covariance \in FitCovariances(n) :
                       /\ _model' = Fitted(fd, table.columns, univariates,
                                           covariance)
                       /\ _num_rows' = table.rows
                       /\ model_kwargs' =
                            [field_distributions |-> get_distributions(_model'),
                             default_distribution |-> _default_distribution,
                             categorical_transformer |->
                                Str(_DEFAULT_TRANSFORMER)]
                       /\ last' = Call("fit", "ok",
                                       [kind |-> "table",
                                        columns |-> table.columns])
    /\ held' = NoMapping
    /\ UNCHANGED <<pc, args, _default_distribution>>

\* What a call on self._model does when the model is missing or not fitted
ModelError(model) ==
    IF ~model.present THEN "AttributeError"
    ELSE IF ~model.fitted THEN "NotFittedError"
    ELSE "ok"

\* GaussianCopula._sample
_sample ==
    /\ pc = "constructed"
    /\ last' = Call("_sample", ModelError(_model), NoArg)
    /\ UNCHANGED <<pc, args, _field_distributions, _default_distribution,
                   _model, _num_rows, model_kwargs, held>>

\* GaussianCopula.get_likelihood
get_likelihood ==
    /\ pc = "constructed"
    /\ last' = Call("get_likelihood", ModelError(_model), NoArg)
    /\ UNCHANGED <<pc, args, _field_distributions, _default_distribution,
                   _model, _num_rows, model_kwargs, held>>

Next ==
    \/ __init__
    \/ fit
    \/ _sample
    \/ get_likelihood
    \/ get_parameters
    \/ set_parameters

Spec == Init /\ [][Next]_vars

\* ================================================================= claims
Constructed == pc = "constructed"
FIT == _model.present /\ _model.fitted

\* What resolution must give for a spec the constructor accepted
ExpectedSpec(d) ==
    IF d.kind = "str" /\ d.name \in Aliases THEN _DISTRIBUTIONS[d.name] ELSE d

\* A string spec that is neither an alias nor a family identifier
Unresolvable(d) ==
    d.kind = "str" /\ d.name \notin Aliases /\ d.name \notin QualifiedNames

\* The specs the constructor was given
SuppliedItems ==
    IF args.field_distributions.truthy
    THEN args.field_distributions.items ELSE EmptyDict
SuppliedSpecs ==
    {SuppliedItems[c] : c \in DOMAIN SuppliedItems} \cup {args.default_distribution}

ExpectedDefault ==
    IF Truthy(args.default_distribution)
    THEN ExpectedSpec(args.default_distribution)
    ELSE _DISTRIBUTIONS["parametric"]

UserSupplied(c) == c \in DOMAIN SuppliedItems /\ Truthy(SuppliedItems[c])

SameParameters(m1, m2) ==
    /\ m1.columns = m2.columns
    /\ m1.covariance = m2.covariance
    /\ Len(m1.univariates) = Len(m2.univariates)
    /\ \A i \in 1..Len(m1.univariates) :
          /\ m1.univariates[i].family = m2.univariates[i].family
          /\ m1.univariates[i].params = m2.univariates[i].params

\* C1: get_parameters followed by set_parameters of the returned mapping on
\* the same instance succeeds and leaves the covariance, the per-column
\* family and parameters, and num_rows as they were before the export.
C1_RoundTrip ==
    [][(last'.op = "set_parameters" /\ last'.arg.source = "held")
         => /\ last'.result = "ok"
            /\ _model'.present /\ _model'.fitted
            /\ SameParameters(_model', _model)
            /\ _num_rows' = _num_rows]_vars

HasNonParametric(model) ==
    \E i \in 1..Len(model.univariates) :
        model.univariates[i].family = "gaussian_kde"

\* C2: on a fitted model get_parameters raises NonParametricError exactly
\* when some column's resolved family is non-parametric; then no mapping is
\* returned, and _sample on such a model succeeds.
C2_NonParametric ==
    (Constructed /\ FIT) =>
        /\ last.op = "get_parameters" =>
              /\ last.result = "NonParametricError" <=> HasNonParametric(_model)
              /\ last.result = "NonParametricError" => ~held.present
              /\ last.result = "ok" => held.present
        /\ (last.op = "_sample" /\ HasNonParametric(_model)) =>
              last.result = "ok"

\* A selector that settled on the kernel density estimate is rejected
C2_Witness ==
    /\ Constructed /\ FIT
    /\ last.op = "get_parameters" /\ last.result = "NonParametricError"
    /\ \E i \in 1..Len(_model.univariates) :
          /\ _model.univariates[i].cls = "Univariate"
          /\ _model.univariates[i].family = "gaussian_kde"

Abs(x) == IF x < 0 THEN -x ELSE x

\* The integer nearest to h halves, ties to the even one, not below 0
ExpectedRows(v) ==
    IF v.kind # "num" THEN 0
    ELSE LET h == v.halves
             q == CHOOSE q \in -(Abs(h) + 1)..(Abs(h) + 1) :
                     /\ Abs(2 * q - h) <= 1
                     /\ 2 * q # h => q % 2 = 0
         IN  IF q < 0 THEN 0 ELSE q

MappingColumns(flat) ==
    {c \in Range(KeyColumns) : \E p \in ParamNames : UniKey(c, p) \in DOMAIN flat}

\* The instance holds a parametric family, not a selector, for the column
HoldsFamily(c) ==
    /\ c \in DOMAIN _field_distributions
    /\ _field_distributions[c].kind \in {"class", "instance", "str"}
    /\ ~IsSelector(_field_distributions[c])
    /\ \A f \in Candidates(_field_distributions[c]) : ~NonParametric(f)

\* C3 as stated: a num_rows that is missing, NaN or null becomes 0 and does
\* not make set_parameters fail; a numeric one is rounded and clamped at 0.
C3_Original ==
    (/\ last.op = "set_parameters"
     /\ WellFormed(With(last.arg.parameters, "num_rows", Num(0)))
     /\ \A c \in MappingColumns(last.arg.parameters) : HoldsFamily(c))
    => /\ last.result = "ok"
       /\ _num_rows >= 0
       /\ _num_rows = (IF "num_rows" \in DOMAIN last.arg.parameters
                       THEN ExpectedRows(last.arg.parameters["num_rows"])
                       ELSE 0)

\* C3 amended: after a set_parameters that succeeds the stored row count is
\* a non-negative integer, a numeric num_rows rounded (ties to even) and
\* clamped at 0, NaN or null turned into 0; a mapping with no num_rows key
\* makes set_parameters fail and leaves the stored row count and the model
\* as they were.
C3_NumRows ==
    [][last'.op = "set_parameters" =>
         /\ ("num_rows" \in DOMAIN last'.arg.parameters /\ last'.result = "ok")
              => /\ _num_rows' >= 0
                 /\ _num_rows' =
                      ExpectedRows(last'.arg.parameters["num_rows"])
         /\ "num_rows" \notin DOMAIN last'.arg.parameters
              => /\ last'.result # "ok"
                 /\ _num_rows' = _num_rows
                 /\ _model' = _model]_vars

\* A mapping that lacks only num_rows is refused; the row count of the fit
\* stays
C3_Witness ==
    /\ last.op = "set_parameters" /\ last.result = "KeyError"
    /\ "num_rows" \notin DOMAIN last.arg.parameters
    /\ WellFormed(With(last.arg.parameters, "num_rows", Num(0)))
    /\ MappingColumns(last.arg.parameters) \subseteq DOMAIN _field_distributions
    /\ FIT /\ _num_rows > 0

\* C4: a set_parameters that fails on a malformed mapping leaves the stored
\* model and num_rows exactly as they were before the call (stated for
\* instances whose columns all hold a concrete family, so that the failure
\* comes from the mapping alone).
C4_NoPartialReconstruction ==
    [][(/\ last'.op = "set_parameters" /\ last'.result # "ok"
        /\ ~WellFormed(last'.arg.parameters)
        /\ \A c \in DOMAIN _field_distributions :
              ~IsSelector(_field_distributions[c]))
         => (_model' = _model /\ _num_rows' = _num_rows)]_vars

SetToSeq(S) == Keep(<<1, 2, 3>>, S)

SubMatrix(m, S) ==
    LET idx == SetToSeq(S)
    IN  [i \in 1..Len(idx) |-> [j \in 1..Len(idx) |-> m[idx[i]][idx[j]]]]

PositiveSemiDefinite(m) ==
    \A S \in SUBSET (1..Len(m)) : Det(SubMatrix(m, S)) >= 0

PositiveDefinite(m) ==
    \A S \in SUBSET (1..Len(m)) : Det(SubMatrix(m, S)) > 0

\* The symmetric matrix the triangular covariance keys of a mapping stand for
ExpandedInput(flat) ==
    LET n == Cardinality({i \in Indices : \E j \in Indices :
                              CovKey(i, j) \in DOMAIN flat})
        v(i, j) == IF CovKey(i, j) \in DOMAIN flat THEN flat[CovKey(i, j)] ELSE 0
    IN  [i \in 1..n |-> [j \in 1..n |->
            IF i = j THEN v(i - 1, i - 1)
            ELSE v(i - 1, j - 1) + v(j - 1, i - 1)]]

\* C5: in every FIT state the stored covariance is symmetric and positive
\* semi-definite; after set_parameters it is the matrix re-expanded from the
\* triangular rows when that one is positive definite, and otherwise a
\* repaired, positive definite one.
C5_CovarianceValid ==
    (Constructed /\ FIT) =>
        /\ IsSymmetric(_model.covariance)
        /\ PositiveSemiDefinite(_model.covariance)
        /\ (last.op = "set_parameters" /\ last.result = "ok") =>
              LET expanded == ExpandedInput(last.arg.parameters)
              IN  IF PositiveDefinite(expanded)
                  THEN _model.covariance = expanded
                  ELSE /\ _model.covariance # expanded
                       /\ PositiveDefinite(_model.covariance)

\* set_parameters has repaired a covariance that was not positive definite
C5_Witness ==
    /\ Constructed /\ FIT
    /\ last.op = "set_parameters" /\ last.result = "ok"
    /\ ~PositiveDefinite(ExpandedInput(last.arg.parameters))
    /\ Len(_model.covariance) = 2

\* C6: an operation that needs a fitted model, invoked on an instance that
\* was never fit, fails with a not-fitted error and the instance stays UNFIT.
\* Stated for get_parameters, whose whole body is in copulas.py (the public
\* sample and the metadata transform of get_likelihood start in other files).
C6_NotFitted ==
    (Constructed /\ ~_model.present /\ last.op = "get_parameters")
    => last.result = "NotFittedError"

C8_SetParametersFits ==
    (last.op = "set_parameters" /\ WellFormed(last.arg.parameters))
    => (last.result = "ok" /\ FIT)

\* C9: once FIT, the stored model stays a completely fitted one.
C9_OneWay ==
    [][(_model.present /\ _model.fitted)
         => (_model'.present /\ _model'.fitted)]_vars

\* C10: at every fit each column of the table has one spec handed to the
\* copula, the one the user supplied for it and else the default; fit never
\* overwrites a spec the user supplied.
C10_OneSpecPerColumn ==
    Constructed =>
        /\ \A c \in Columns : UserSupplied(c) =>
              _field_distributions[c] = ExpectedSpec(SuppliedItems[c])
        /\ last.op = "fit" =>
              \A i \in 1..Len(last.arg.columns) :
                 LET c == last.arg.columns[i]
                 IN  /\ c \in DOMAIN _model.distribution
                     /\ _model.distribution[c] =
                          (IF UserSupplied(c)
                           THEN ExpectedSpec(SuppliedItems[c])
                           ELSE ExpectedDefault)

\* A fit over both columns, one with a spec of the user, one on the default
C10_Witness ==
    /\ Constructed /\ last.op = "fit" /\ last.result = "ok"
    /\ last.arg.columns = <<"a", "b">>
    /\ UserSupplied("a") /\ ~UserSupplied("b")
    /\ _model.distribution["a"] # _model.distribution["b"]

====
